---- MODULE Spec2Model ----
(***************************************************************************)
(* INSPECTRA dashboard (src/streamlitapp.py): one Streamlit script that is *)
(* re-executed top to bottom on every rerun.  The model follows the script *)
(* section by section: a program counter `pc` names the section about to   *)
(* run, `rendered` is the list of page elements emitted so far in the      *)
(* current run, and the script's module-level names are the variables.     *)
(*                                                                         *)
(* A DataFrame is a record [columns, rows]: `columns` is the set of column *)
(* names and `rows` the sequence of rows (records indexed by column name). *)
(* pd.DataFrame() is the frame with no columns and no rows; subscripting a *)
(* frame with a column it does not have raises KeyError, and .iloc[0] on a *)
(* frame with no rows raises IndexError.                                   *)
(***************************************************************************)
EXTENDS Integers, Sequences, FiniteSets, TLC

VARIABLES
    session,          \* the warehouse behind get_active_session(): five tables
    widgets,          \* Streamlit widget state kept across reruns
    issued,           \* report artifacts offered for download so far
    pc,               \* section about to run, or "done" / "stopped" / "exception"
    exception,        \* the uncaught exception that ended the run, or "none"
    rendered,         \* page elements emitted by the current run, in order
    property_df, room_df, summary_df, image_df, bank_df,
    focus, only_high_risk, property_id, property_row,
    rooms_inspected, confidence,
    room_view, heatmap_df, explanations, coverage,
    summary_text, report_text, file_name,
    img_view, decision, trend_df

tables == <<property_df, room_df, summary_df, image_df, bank_df>>

locals == <<focus, only_high_risk, property_id, property_row, rooms_inspected,
            confidence, room_view, heatmap_df, explanations, coverage,
            summary_text, report_text, file_name, img_view, decision, trend_df>>

vars == <<session, widgets, issued, pc, exception, rendered, tables, locals>>

----------------------------------------------------------------------------
(* Bounds of the model *)

MaxRooms == 2
MaxCount == 8
MaxScore == 100

PropertyIds == <<"P1", "P2">>
RoomTypes == {"Kitchen"}
RoomScores == {20, 60, 80}
FocusInputs == {0, 2}

----------------------------------------------------------------------------
(* DataFrames *)

EmptyFrame == [columns |-> {}, rows |-> <<>>]

IsEmpty(df) == Len(df.rows) = 0 \/ df.columns = {}

HasColumn(df, c) == c \in df.columns

WhereEq(df, c, v) == [df EXCEPT !.rows = SelectSeq(df.rows, LAMBDA r : r[c] = v)]

WhereGe(df, c, v) == [df EXCEPT !.rows = SelectSeq(df.rows, LAMBDA r : r[c] >= v)]

PropertyColumns == {"PROPERTY_ID", "RISK_LEVEL", "TOTAL_RISK"}
RoomColumns == {"PROPERTY_ID", "ROOM_TYPE", "ROOM_RISK_SCORE"}
SummaryColumns == {"PROPERTY_ID", "SUMMARY_TEXT"}
ImageColumns == {"PROPERTY_ID", "ROOM_TYPE"}
BankColumns == {"PROPERTY_ID", "BANK_DECISION"}

Columns(t) ==
    CASE t = "PROPERTY_RISK" -> PropertyColumns
      [] t = "ROOM_RISK" -> RoomColumns
      [] t = "PROPERTY_SUMMARY" -> SummaryColumns
      [] t = "ROOM_IMAGES" -> ImageColumns
      [] t = "BANK_RISK_VIEW" -> BankColumns

TableNames == <<"PROPERTY_RISK", "ROOM_RISK", "PROPERTY_SUMMARY", "ROOM_IMAGES",
                "BANK_RISK_VIEW">>

----------------------------------------------------------------------------
(* The warehouse: for each table, whether its query succeeds, and its rows *)

Result(ok, rows) == [ok |-> ok, rows |-> rows]

QueryFails == Result(FALSE, <<>>)

PropertyRow(p, level, total) ==
    [PROPERTY_ID |-> p, RISK_LEVEL |-> level, TOTAL_RISK |-> total]

RoomRow(p, t, s) == [PROPERTY_ID |-> p, ROOM_TYPE |-> t, ROOM_RISK_SCORE |-> s]

SummaryRow(p) == [PROPERTY_ID |-> p, SUMMARY_TEXT |-> "summary"]

ImageRow(p, t) == [PROPERTY_ID |-> p, ROOM_TYPE |-> t]

BankRow(p, d) == [PROPERTY_ID |-> p, BANK_DECISION |-> d]

PropertyResults ==
    { QueryFails,
      Result(TRUE, <<>>),
      Result(TRUE, <<PropertyRow("P1", "HIGH", 85)>>),
      Result(TRUE, <<PropertyRow("P1", "MEDIUM", 55), PropertyRow("P2", "LOW", 20)>>) }

RoomRows == { RoomRow(PropertyIds[i], t, s) : i \in DOMAIN PropertyIds,
                                              t \in RoomTypes, s \in RoomScores }

PidIndex(p) == CHOOSE i \in DOMAIN PropertyIds : PropertyIds[i] = p

RowKey(r) == PidIndex(r.PROPERTY_ID) * (MaxScore + 1) + r.ROOM_RISK_SCORE

\* Room tables of at most MaxRooms rows, listed by property and score in
\* ascending or in descending order.
RoomTables ==
    UNION { { q \in [1..n -> RoomRows] :
                \/ \A i \in 1..(n - 1) : RowKey(q[i]) <= RowKey(q[i + 1])
                \/ \A i \in 1..(n - 1) : RowKey(q[i]) >= RowKey(q[i + 1]) } :
            n \in 0..MaxRooms }

RoomResults == { QueryFails } \cup { Result(TRUE, q) : q \in RoomTables }

SummaryResults ==
    { QueryFails, Result(TRUE, <<SummaryRow("P1")>>),
      Result(TRUE, <<SummaryRow("P1"), SummaryRow("P2")>>) }

ImageResults == { QueryFails, Result(TRUE, <<ImageRow("P1", "Kitchen")>>) }

BankResults == { QueryFails, Result(TRUE, <<>>), Result(TRUE, <<BankRow("P1", "LOAN_REJECT")>>) }

\* Every combination of load outcomes, with small room tables.
Warehouses ==
    [PROPERTY_RISK : PropertyResults, ROOM_RISK : RoomResults,
     PROPERTY_SUMMARY : SummaryResults, ROOM_IMAGES : ImageResults,
     BANK_RISK_VIEW : BankResults]

\* A warehouse in which every query succeeds and both properties have a row in
\* every secondary table, around the given room table.
Complete(rooms) ==
    [PROPERTY_RISK |->
         Result(TRUE, <<PropertyRow("P1", "HIGH", 85), PropertyRow("P2", "LOW", 20)>>),
     ROOM_RISK |-> Result(TRUE, rooms),
     PROPERTY_SUMMARY |-> Result(TRUE, <<SummaryRow("P1"), SummaryRow("P2")>>),
     ROOM_IMAGES |-> Result(TRUE, <<ImageRow("P1", "Kitchen")>>),
     BANK_RISK_VIEW |->
         Result(TRUE, <<BankRow("P1", "MANUAL_REVIEW"), BankRow("P2", "LOAN_APPROVE")>>)]

\* One room of P1 with every integer score.
ScoreWarehouses == { Complete(<<RoomRow("P1", "Kitchen", s)>>) : s \in 0..MaxScore }

\* n rooms of P1 followed by m rooms of P2, for every count up to MaxCount.
CountWarehouses ==
    { Complete([i \in 1..(n + m) |->
                   IF i <= n THEN RoomRow("P1", "Kitchen", 20)
                   ELSE RoomRow("P2", "Kitchen", 20)]) : n \in 0..MaxCount, m \in 0..1 }

----------------------------------------------------------------------------
(* Values of names the current run has not assigned yet *)

NoRow == PropertyRow("", "", 0)
NoRatio == [num |-> 0, den |-> 0]
NoCount == 0 - 1

FocusOptions == <<"Overall", "Structural", "Electrical", "Finishing">>

Header == <<"title">>

----------------------------------------------------------------------------
(* Thresholds and pure functions of the script *)

HighThreshold == 80
MediumThreshold == 60
LowThreshold == 30
FilterThreshold == 60
ConfidenceThreshold == 3
FullInspection == 5

\* load_df: the query's frame, or pd.DataFrame() when the query raises.
load_df(t) ==
    IF session[t].ok THEN [columns |-> Columns(t), rows |-> session[t].rows]
    ELSE EmptyFrame

\* st.error(f"Data load failed: {e}") for the query of table t.
ErrorMessage(t) ==
    CASE t = "PROPERTY_RISK" -> "error: Data load failed: PROPERTY_RISK"
      [] t = "ROOM_RISK" -> "error: Data load failed: ROOM_RISK"
      [] t = "PROPERTY_SUMMARY" -> "error: Data load failed: PROPERTY_SUMMARY"
      [] t = "ROOM_IMAGES" -> "error: Data load failed: ROOM_IMAGES"
      [] t = "BANK_RISK_VIEW" -> "error: Data load failed: BANK_RISK_VIEW"

\* The messages of the failing queries, in the order of the five calls.
LoadErrors ==
    LET failing == SelectSeq(TableNames, LAMBDA t : ~session[t].ok)
    IN [i \in 1..Len(failing) |-> ErrorMessage(failing[i])]

\* Series.unique(): the values in order of first appearance.
RECURSIVE Unique(_)
Unique(q) ==
    IF q = <<>> THEN <<>>
    ELSE LET init == Unique(SubSeq(q, 1, Len(q) - 1))
             last == q[Len(q)]
         IN IF \E i \in DOMAIN init : init[i] = last THEN init ELSE Append(init, last)

ClassifyStrict(score) ==
    IF score > HighThreshold
        THEN [reason |-> "Severe structural or safety defect", severity |-> "HIGH"]
    ELSE IF score > MediumThreshold
        THEN [reason |-> "Electrical hazard or dampness detected", severity |-> "MEDIUM"]
    ELSE IF score > LowThreshold
        THEN [reason |-> "Minor maintenance or finishing issue", severity |-> "LOW"]
    ELSE [reason |-> "No significant defects found", severity |-> "SAFE"]

\* The if/elif chain of the explanation panel.
Classify(score) ==
    IF score >= HighThreshold
        THEN [reason |-> "Severe structural or safety defect", severity |-> "HIGH"]
    ELSE IF score >= MediumThreshold
        THEN [reason |-> "Electrical hazard or dampness detected", severity |-> "MEDIUM"]
    ELSE IF score >= LowThreshold
        THEN [reason |-> "Minor maintenance or finishing issue", severity |-> "LOW"]
    ELSE [reason |-> "No significant defects found", severity |-> "SAFE"]

\* The banner shown inside a room's expander.
Banner(severity) ==
    IF severity = "HIGH" THEN "error: High-confidence safety risk"
    ELSE IF severity = "MEDIUM" THEN "warning: Moderate risk, attention advised"
    ELSE IF severity = "LOW" THEN "info: Low risk, routine maintenance suggested"
    ELSE "success: Room appears safe"

\* The lambda that fills the heatmap's RISK_LEVEL column.
HeatLabel(x) ==
    IF x >= 80 THEN "High"
    ELSE IF x >= 60 THEN "Medium"
    ELSE IF x >= 30 THEN "Low"
    ELSE "Safe"

RoomsInspectedAll(df, pid) == Len(df.rows)

\* room_df[room_df["PROPERTY_ID"] == property_id].shape[0]
RoomsInspected(df, pid) == Len(WhereEq(df, "PROPERTY_ID", pid).rows)

Confidence(n) == IF n >= ConfidenceThreshold THEN "High" ELSE "Medium"

\* Rationals as [num, den] with den > 0.
Ratio(a, b) == [num |-> a, den |-> b]
RatioLe(x, y) == x.num * y.den <= y.num * x.den
One == Ratio(1, 1)

\* Python's min(a, b): b when b < a, else a.
Min(a, b) == IF RatioLe(a, b) THEN a ELSE b

CoverageUnclamped(n) == Ratio(n, FullInspection)

\* min(rooms_inspected / 5, 1.0)
CoverageRatio(n) == Min(Ratio(n, FullInspection), One)

ReportTextWithView(pid, level, total, n, conf) ==
    << <<"PROPERTY ID: ", pid>>,
       <<"OVERALL RISK LEVEL: ", level>>,
       <<"TOTAL RISK SCORE: ", total>>,
       <<"INSPECTION COVERAGE:">>,
       <<"- Rooms inspected: ", Len(room_view.rows)>>,
       <<"- Confidence level: ", conf>>,
       <<"KEY AI FINDINGS:">>,
       <<"- High-risk rooms detected">>,
       <<"- Electrical/damp issues identified">>,
       <<"- Structural safety evaluated using transparent thresholds">>,
       <<"RECOMMENDATION:">>,
       <<"Immediate corrective inspection advised for high-risk rooms.">>,
       <<"Preventive maintenance recommended for medium-risk rooms.">> >>

\* The f-string of the report: the fixed lines with the five values filled in.
ReportText(pid, level, total, n, conf) ==
    << <<"PROPERTY ID: ", pid>>,
       <<"OVERALL RISK LEVEL: ", level>>,
       <<"TOTAL RISK SCORE: ", total>>,
       <<"INSPECTION COVERAGE:">>,
       <<"- Rooms inspected: ", n>>,
       <<"- Confidence level: ", conf>>,
       <<"KEY AI FINDINGS:">>,
       <<"- High-risk rooms detected">>,
       <<"- Electrical/damp issues identified">>,
       <<"- Structural safety evaluated using transparent thresholds">>,
       <<"RECOMMENDATION:">>,
       <<"Immediate corrective inspection advised for high-risk rooms.">>,
       <<"Preventive maintenance recommended for medium-risk rooms.">> >>

FileName(pid) == <<pid, "_AI_Inspection_Report.txt">>

\* The tier the Risk Severity Guide printed on the page gives a score.
GuideTier(score) ==
    IF score >= 70 THEN "High"
    ELSE IF score >= 30 THEN "Medium"
    ELSE IF score >= 1 THEN "Low"
    ELSE "Safe"

----------------------------------------------------------------------------
(* A run of the script *)

Raise(e, shown) ==
    /\ pc' = "exception"
    /\ exception' = e
    /\ rendered' = rendered \o shown

Goto(next, shown) ==
    /\ pc' = next
    /\ exception' = exception
    /\ rendered' = rendered \o shown

Keep == UNCHANGED <<session, widgets>>

\* The state in which a run starts: lines 8-20 have drawn the page header and
\* none of the script's names is bound yet.
FreshRun ==
    /\ pc = "load"
    /\ exception = "none"
    /\ rendered = Header
    /\ property_df = EmptyFrame /\ room_df = EmptyFrame /\ summary_df = EmptyFrame
    /\ image_df = EmptyFrame /\ bank_df = EmptyFrame
    /\ focus = "" /\ only_high_risk = FALSE
    /\ property_id = "" /\ property_row = NoRow
    /\ rooms_inspected = NoCount /\ confidence = ""
    /\ room_view = EmptyFrame /\ heatmap_df = EmptyFrame /\ explanations = <<>>
    /\ coverage = NoRatio
    /\ summary_text = "" /\ report_text = <<>> /\ file_name = <<>>
    /\ img_view = EmptyFrame /\ decision = "" /\ trend_df = EmptyFrame

Init ==
    /\ session \in Warehouses \cup ScoreWarehouses \cup CountWarehouses
    /\ widgets = [property |-> 0, focus |-> 0, high_risk |-> FALSE]
    /\ issued = {}
    /\ FreshRun

LoadUnguarded ==
    /\ pc = "load"
    /\ property_df' = load_df("PROPERTY_RISK")
    /\ room_df' = load_df("ROOM_RISK")
    /\ summary_df' = load_df("PROPERTY_SUMMARY")
    /\ image_df' = load_df("ROOM_IMAGES")
    /\ bank_df' = load_df("BANK_RISK_VIEW")
    /\ IF IsEmpty(property_df')
       THEN Raise(IF HasColumn(property_df', "PROPERTY_ID") THEN "IndexError" ELSE "KeyError",
                  LoadErrors \o <<"Inspection Settings", "selectbox: Inspection Focus",
                                  "checkbox: Highlight only high-risk rooms",
                                  "Select Property">>)
       ELSE Goto("sidebar", LoadErrors)
    /\ UNCHANGED <<locals, issued>>
    /\ Keep

\* Load Core Tables: the five load_df calls and the property_df.empty guard.
Load ==
    /\ pc = "load"
    /\ property_df' = load_df("PROPERTY_RISK")
    /\ room_df' = load_df("ROOM_RISK")
    /\ summary_df' = load_df("PROPERTY_SUMMARY")
    /\ image_df' = load_df("ROOM_IMAGES")
    /\ bank_df' = load_df("BANK_RISK_VIEW")
    /\ IF IsEmpty(property_df')
       THEN Goto("stopped", LoadErrors \o <<"warning: No inspection data available yet.">>)
       ELSE Goto("sidebar", LoadErrors)
    /\ UNCHANGED <<locals, issued>>
    /\ Keep

\* Sidebar Controls
Sidebar ==
    /\ pc = "sidebar"
    /\ focus' = FocusOptions[widgets.focus + 1]
    /\ only_high_risk' = widgets.high_risk
    /\ Goto("select", <<"Inspection Settings", "selectbox: Inspection Focus",
                        "checkbox: Highlight only high-risk rooms">>)
    /\ UNCHANGED <<tables, issued, property_id, property_row, rooms_inspected,
                   confidence, room_view, heatmap_df, explanations, coverage,
                   summary_text, report_text, file_name, img_view, decision, trend_df>>
    /\ Keep

Column(df, c) == [i \in 1..Len(df.rows) |-> df.rows[i][c]]

PropertyOptions == Unique(Column(property_df, "PROPERTY_ID"))

\* Property Selection
Select ==
    /\ pc = "select"
    /\ LET options == PropertyOptions
           chosen == IF widgets.property + 1 \in DOMAIN options
                     THEN options[widgets.property + 1] ELSE options[1]
       IN /\ property_id' = chosen
          /\ property_row' = WhereEq(property_df, "PROPERTY_ID", chosen).rows[1]
    /\ Goto("metrics", <<"Select Property", "selectbox: Property ID">>)
    /\ UNCHANGED <<tables, issued, focus, only_high_risk, rooms_inspected,
                   confidence, room_view, heatmap_df, explanations, coverage,
                   summary_text, report_text, file_name, img_view, decision, trend_df>>
    /\ Keep

\* Key Metrics
KeyMetrics ==
    /\ pc = "metrics"
    /\ LET shown == <<"Overall Risk Assessment", "metric: Risk Level",
                      "metric: Total Risk Score">>
       IN IF ~HasColumn(room_df, "PROPERTY_ID")
          THEN /\ Raise("KeyError", shown)
               /\ UNCHANGED <<rooms_inspected, confidence>>
          ELSE /\ rooms_inspected' = RoomsInspected(room_df, property_id)
               /\ confidence' = Confidence(rooms_inspected')
               /\ Goto("rooms", Append(shown, "metric: Inspection Confidence"))
    /\ UNCHANGED <<tables, issued, focus, only_high_risk, property_id, property_row,
                   room_view, heatmap_df, explanations, coverage,
                   summary_text, report_text, file_name, img_view, decision, trend_df>>
    /\ Keep

\* Room-wise Risk Breakdown
RoomBreakdown ==
    /\ pc = "rooms"
    /\ LET mine == WhereEq(room_df, "PROPERTY_ID", property_id)
       IN room_view' = IF only_high_risk
                       THEN WhereGe(mine, "ROOM_RISK_SCORE", FilterThreshold)
                       ELSE mine
    /\ Goto("heatmap", <<"Room-wise Risk Distribution", "bar_chart: room_view",
                         "dataframe: room_view">>)
    /\ UNCHANGED <<tables, issued, focus, only_high_risk, property_id, property_row,
                   rooms_inspected, confidence, heatmap_df, explanations, coverage,
                   summary_text, report_text, file_name, img_view, decision, trend_df>>
    /\ Keep

\* df[c] = values: the frame with one more column, values[i] in row i.
WithColumn(df, c, values) ==
    [columns |-> df.columns \cup {c},
     rows |-> [i \in 1..Len(df.rows) |->
                 [k \in df.columns \cup {c} |->
                     IF k = c THEN values[i] ELSE df.rows[i][k]]]]

\* Room Risk Heatmap
Heatmap ==
    /\ pc = "heatmap"
    /\ heatmap_df' = WithColumn(room_view, "RISK_LEVEL",
                                [i \in 1..Len(room_view.rows) |->
                                    HeatLabel(room_view.rows[i].ROOM_RISK_SCORE)])
    /\ Goto("explain", <<"Room Risk Heatmap", "dataframe: heatmap_df">>)
    /\ UNCHANGED <<tables, issued, focus, only_high_risk, property_id, property_row,
                   rooms_inspected, confidence, room_view, explanations, coverage,
                   summary_text, report_text, file_name, img_view, decision, trend_df>>
    /\ Keep

\* Explainable AI Panel: one expander per row of room_view.
Explain ==
    /\ pc = "explain"
    /\ explanations' =
         [i \in 1..Len(room_view.rows) |->
            LET row == room_view.rows[i]
                c == Classify(row.ROOM_RISK_SCORE)
            IN [room |-> row.ROOM_TYPE, score |-> row.ROOM_RISK_SCORE,
                reason |-> c.reason, severity |-> c.severity,
                banner |-> Banner(c.severity)]]
    /\ Goto("coverage", <<"Explainable AI", "expanders: explanations">>)
    /\ UNCHANGED <<tables, issued, focus, only_high_risk, property_id, property_row,
                   rooms_inspected, confidence, room_view, heatmap_df, coverage,
                   summary_text, report_text, file_name, img_view, decision, trend_df>>
    /\ Keep

\* Inspection Coverage
Coverage ==
    /\ pc = "coverage"
    /\ coverage' = CoverageRatio(rooms_inspected)
    /\ Goto("summary", <<"Inspection Coverage", "metric: Rooms Inspected",
                         "progress: coverage">>)
    /\ UNCHANGED <<tables, issued, focus, only_high_risk, property_id, property_row,
                   rooms_inspected, confidence, room_view, heatmap_df, explanations,
                   summary_text, report_text, file_name, img_view, decision, trend_df>>
    /\ Keep

\* Plain-Language Summary
Summary ==
    /\ pc = "summary"
    /\ LET shown == <<"Plain-Language Inspection Summary">>
       IN IF ~HasColumn(summary_df, "PROPERTY_ID")
          THEN Raise("KeyError", shown) /\ UNCHANGED summary_text
          ELSE LET mine == WhereEq(summary_df, "PROPERTY_ID", property_id)
               IN IF Len(mine.rows) = 0
                  THEN Raise("IndexError", shown) /\ UNCHANGED summary_text
                  ELSE /\ summary_text' = mine.rows[1].SUMMARY_TEXT
                       /\ Goto("report",
                               Append(shown,
                                      IF property_row.RISK_LEVEL = "HIGH"
                                          THEN "error: summary_text"
                                      ELSE IF property_row.RISK_LEVEL = "MEDIUM"
                                          THEN "warning: summary_text"
                                      ELSE "success: summary_text"))
    /\ UNCHANGED <<tables, issued, focus, only_high_risk, property_id, property_row,
                   rooms_inspected, confidence, room_view, heatmap_df, explanations,
                   coverage, report_text, file_name, img_view, decision, trend_df>>
    /\ Keep

\* The artifacts offered so far with `art` added: each distinct artifact once, and
\* whether it has been produced more than once.
Record(log, art) ==
    LET same == { a \in log : a.artifact = art }
    IN IF same = {} THEN log \cup { [artifact |-> art, again |-> FALSE] }
       ELSE (log \ same) \cup { [artifact |-> art, again |-> TRUE] }

\* AI-Generated Report: the preview and the download button.
Report ==
    /\ pc = "report"
    /\ report_text' = ReportText(property_id, property_row.RISK_LEVEL,
                                 property_row.TOTAL_RISK, rooms_inspected, confidence)
    /\ file_name' = FileName(property_id)
    /\ issued' = Record(issued,
                        [property_id |-> property_id, risk_level |-> property_row.RISK_LEVEL,
                         total_risk |-> property_row.TOTAL_RISK,
                         rooms_inspected |-> rooms_inspected, confidence |-> confidence,
                         text |-> report_text', file_name |-> file_name'])
    /\ Goto("guide", <<"AI-Generated Inspection Report", "text_area: report_text",
                       "download_button: report_text">>)
    /\ UNCHANGED <<tables, focus, only_high_risk, property_id, property_row,
                   rooms_inspected, confidence, room_view, heatmap_df, explanations,
                   coverage, summary_text, img_view, decision, trend_df>>
    /\ Keep

\* Risk Severity Guide
Guide ==
    /\ pc = "guide"
    /\ Goto("images", <<"Risk Severity Guide">>)
    /\ UNCHANGED <<tables, issued, locals>>
    /\ Keep

\* AI Vision Findings: one image per row of the property, three columns.
Images ==
    /\ pc = "images"
    /\ LET shown == <<"Detected Defects">>
       IN IF ~HasColumn(image_df, "PROPERTY_ID")
          THEN Raise("KeyError", shown) /\ UNCHANGED img_view
          ELSE /\ img_view' = WhereEq(image_df, "PROPERTY_ID", property_id)
               /\ Goto("bank", shown \o [i \in 1..Len(img_view'.rows) |-> "image"])
    /\ UNCHANGED <<tables, issued, focus, only_high_risk, property_id, property_row,
                   rooms_inspected, confidence, room_view, heatmap_df, explanations,
                   coverage, summary_text, report_text, file_name, decision, trend_df>>
    /\ Keep

\* Bank / Mortgage Signal
Bank ==
    /\ pc = "bank"
    /\ LET shown == <<"Bank / Mortgage Risk Signal">>
       IN IF ~HasColumn(bank_df, "PROPERTY_ID")
          THEN Raise("KeyError", shown) /\ UNCHANGED decision
          ELSE LET mine == WhereEq(bank_df, "PROPERTY_ID", property_id)
               IN IF Len(mine.rows) = 0
                  THEN Raise("IndexError", shown) /\ UNCHANGED decision
                  ELSE /\ decision' = IF HasColumn(mine, "BANK_DECISION")
                                      THEN mine.rows[1].BANK_DECISION
                                      ELSE "MANUAL_REVIEW"
                       /\ Goto("trend",
                               Append(shown,
                                      IF decision' = "LOAN_REJECT"
                                          THEN "error: Loan not recommended due to safety risks"
                                      ELSE IF decision' = "MANUAL_REVIEW"
                                          THEN "warning: Manual review required"
                                      ELSE "success: Property suitable for standard loan approval"))
    /\ UNCHANGED <<tables, issued, focus, only_high_risk, property_id, property_row,
                   rooms_inspected, confidence, room_view, heatmap_df, explanations,
                   coverage, summary_text, report_text, file_name, img_view, trend_df>>
    /\ Keep

\* pd.date_range(end=today, periods=n): entry i of n is n - i days before today.
DaysBeforeToday(n) == [i \in 1..n |-> n - i]

TrendInPlace ==
    /\ pc = "trend"
    /\ trend_df' = WithColumn(property_df, "INSPECTION_DATE",
                              DaysBeforeToday(Len(property_df.rows)))
    /\ property_df' = trend_df'
    /\ Goto("footer", <<"Risk Trend Over Time", "line_chart: trend_df">>)
    /\ UNCHANGED <<room_df, summary_df, image_df, bank_df, issued, focus, only_high_risk,
                   property_id, property_row,
                   rooms_inspected, confidence, room_view, heatmap_df, explanations,
                   coverage, summary_text, report_text, file_name, img_view, decision>>
    /\ Keep

\* Risk Trend Over Time: a copy of property_df with a date column.
Trend ==
    /\ pc = "trend"
    /\ trend_df' = WithColumn(property_df, "INSPECTION_DATE",
                              DaysBeforeToday(Len(property_df.rows)))
    /\ Goto("footer", <<"Risk Trend Over Time", "line_chart: trend_df">>)
    /\ UNCHANGED <<tables, issued, focus, only_high_risk, property_id, property_row,
                   rooms_inspected, confidence, room_view, heatmap_df, explanations,
                   coverage, summary_text, report_text, file_name, img_view, decision>>
    /\ Keep

\* Footer: the last statement of the script.
Footer ==
    /\ pc = "footer"
    /\ Goto("done", <<"footer">>)
    /\ UNCHANGED <<tables, issued, locals>>
    /\ Keep

----------------------------------------------------------------------------
(* Reruns: Streamlit executes the script again, from the top and with fresh *)
(* names, when the viewer changes a widget or asks for a rerun.             *)

Shown(e) == \E i \in DOMAIN rendered : rendered[i] = e

Restart(w) ==
    /\ widgets' = w
    /\ pc' = "load"
    /\ exception' = "none"
    /\ rendered' = Header
    /\ property_df' = EmptyFrame /\ room_df' = EmptyFrame /\ summary_df' = EmptyFrame
    /\ image_df' = EmptyFrame /\ bank_df' = EmptyFrame
    /\ focus' = "" /\ only_high_risk' = FALSE
    /\ property_id' = "" /\ property_row' = NoRow
    /\ rooms_inspected' = NoCount /\ confidence' = ""
    /\ room_view' = EmptyFrame /\ heatmap_df' = EmptyFrame /\ explanations' = <<>>
    /\ coverage' = NoRatio
    /\ summary_text' = "" /\ report_text' = <<>> /\ file_name' = <<>>
    /\ img_view' = EmptyFrame /\ decision' = "" /\ trend_df' = EmptyFrame
    /\ UNCHANGED <<session, issued>>

SelectProperty ==
    /\ Shown("selectbox: Property ID")
    /\ \E i \in 0..(Len(PropertyOptions) - 1) :
          /\ i # widgets.property
          /\ Restart([widgets EXCEPT !.property = i])

ChangeFocus ==
    /\ Shown("selectbox: Inspection Focus")
    /\ \E i \in FocusInputs :
          /\ i # widgets.focus
          /\ Restart([widgets EXCEPT !.focus = i])

ToggleHighRisk ==
    /\ Shown("checkbox: Highlight only high-risk rooms")
    /\ Restart([widgets EXCEPT !.high_risk = ~widgets.high_risk])

Rerun ==
    /\ pc \in {"done", "stopped", "exception"}
    /\ Restart(widgets)

Next ==
    \/ Load \/ Sidebar \/ Select \/ KeyMetrics \/ RoomBreakdown \/ Heatmap \/ Explain
    \/ Coverage \/ Summary \/ Report \/ Guide \/ Images \/ Bank \/ Trend \/ Footer
    \/ SelectProperty \/ ChangeFocus \/ ToggleHighRisk \/ Rerun

Spec == Init /\ [][Next]_vars

----------------------------------------------------------------------------
(* Properties *)

Loaded == pc # "load"

RoomRowsOf(p) ==
    { i \in DOMAIN session.ROOM_RISK.rows : session.ROOM_RISK.rows[i].PROPERTY_ID = p }

ExpectedPair(s) ==
    CASE s >= 80 -> <<"HIGH", "Severe structural or safety defect">>
      [] s >= 60 /\ s < 80 -> <<"MEDIUM", "Electrical hazard or dampness detected">>
      [] s >= 30 /\ s < 60 -> <<"LOW", "Minor maintenance or finishing issue">>
      [] s < 30 -> <<"SAFE", "No significant defects found">>

TierLabel(severity) ==
    CASE severity = "HIGH" -> "High"
      [] severity = "MEDIUM" -> "Medium"
      [] severity = "LOW" -> "Low"
      [] severity = "SAFE" -> "Safe"

\* C1: every room score in 0..100 gets exactly one (tier, explanation) pair, the
\* one the thresholds 80 / 60 / 30 prescribe, the panel has one entry per room of
\* the view and no run ends in an error inside the heatmap or the panel; the
\* heatmap's RISK_LEVEL label of a room names the tier the panel gives it.
C1_ClassifierThresholds ==
    /\ \A i \in DOMAIN explanations :
          /\ explanations[i].score = room_view.rows[i].ROOM_RISK_SCORE
          /\ <<explanations[i].severity, explanations[i].reason>>
                = ExpectedPair(explanations[i].score)
    /\ \A i \in DOMAIN heatmap_df.rows :
          /\ heatmap_df.rows[i].ROOM_RISK_SCORE = room_view.rows[i].ROOM_RISK_SCORE
          /\ heatmap_df.rows[i].RISK_LEVEL
                = TierLabel(ExpectedPair(heatmap_df.rows[i].ROOM_RISK_SCORE)[1])
    /\ Shown("dataframe: room_view") /\ pc = "exception" => Shown("expanders: explanations")
    /\ Shown("dataframe: heatmap_df") => Len(heatmap_df.rows) = Len(room_view.rows)
    /\ Shown("expanders: explanations") => Len(explanations) = Len(room_view.rows)

\* C1 witness: the panel has classified a room whose score is the boundary 79.
C1_Witness ==
    /\ Shown("expanders: explanations")
    /\ Len(explanations) = 1
    /\ explanations[1].score = 79
    /\ explanations[1].severity = "MEDIUM"
    /\ heatmap_df.rows[1].RISK_LEVEL = "Medium"

\* C2: once computed, rooms_inspected is the number of rows of the room table
\* whose PROPERTY_ID is the selected id, and confidence is "High" exactly when
\* that number is at least 3 and "Medium" otherwise.
C2_RoomsInspected ==
    Shown("metric: Inspection Confidence") =>
        /\ rooms_inspected = Cardinality(RoomRowsOf(property_id))
        /\ confidence = "High" <=> Cardinality(RoomRowsOf(property_id)) >= 3
        /\ confidence = "Medium" <=> Cardinality(RoomRowsOf(property_id)) < 3

\* C2 witness: three rooms of the selected property beside a room of another one.
C2_Witness ==
    /\ Shown("metric: Inspection Confidence")
    /\ rooms_inspected = 3
    /\ confidence = "High"
    /\ Len(session.ROOM_RISK.rows) = 4

\* C3: the coverage shown in the progress bar is n/5 for n < 5 and 1 for n >= 5,
\* n the room count of the selected property, and lies in [0, 1].
C3_CoverageClamped ==
    Shown("progress: coverage") =>
        /\ coverage.den > 0
        /\ rooms_inspected < 5 => coverage.num * 5 = rooms_inspected * coverage.den
        /\ rooms_inspected >= 5 => coverage.num = coverage.den
        /\ 0 <= coverage.num /\ coverage.num <= coverage.den

\* C3 witness: seven rooms, coverage 1.
C3_Witness ==
    /\ Shown("progress: coverage")
    /\ rooms_inspected = 7
    /\ coverage.num = coverage.den

NoRoomsLoaded ==
    /\ property_id # ""
    /\ \A i \in DOMAIN room_df.rows : room_df.rows[i].PROPERTY_ID # property_id

\* C4: when the selected property has no room rows, the aggregation and
\* classification sections do not fail: rooms_inspected = 0, confidence = "Medium",
\* coverage = 0 and chart, heatmap and panel are produced with zero rooms.
C4_EmptyRoomSet ==
    NoRoomsLoaded =>
        /\ pc = "exception" => Shown("progress: coverage")
        /\ Shown("metric: Inspection Confidence") =>
              rooms_inspected = 0 /\ confidence = "Medium"
        /\ Shown("dataframe: room_view") => room_view.rows = <<>>
        /\ Shown("dataframe: heatmap_df") => heatmap_df.rows = <<>>
        /\ Shown("expanders: explanations") => explanations = <<>>
        /\ Shown("progress: coverage") => coverage.den > 0 /\ coverage.num = 0

\* What C4 says holds when the room query succeeded (whatever rows it returned).
EmptyRoomSetWhenLoaded == session.ROOM_RISK.ok => C4_EmptyRoomSet

Sections ==
    {"Inspection Settings", "Select Property", "selectbox: Property ID",
     "Overall Risk Assessment", "metric: Risk Level", "metric: Total Risk Score",
     "metric: Inspection Confidence", "Room-wise Risk Distribution", "Room Risk Heatmap",
     "Explainable AI", "Inspection Coverage", "Plain-Language Inspection Summary",
     "AI-Generated Inspection Report", "download_button: report_text",
     "Risk Severity Guide", "Detected Defects", "Bank / Mortgage Risk Signal",
     "Risk Trend Over Time", "footer"}

\* C5: a failing query never ends the run inside the loader: its error message is
\* shown and its frame is empty; and when the property table is empty the run
\* stops right after the warning, with no section rendered.
C5_LoaderFailureContained ==
    Loaded =>
        /\ \A i \in DOMAIN TableNames :
              ~session[TableNames[i]].ok =>
                  /\ tables[i] = EmptyFrame
                  /\ Shown(ErrorMessage(TableNames[i]))
        /\ pc = "exception" => Shown("Inspection Settings")
        /\ (~session.PROPERTY_RISK.ok \/ session.PROPERTY_RISK.rows = <<>>) =>
              /\ pc = "stopped"
              /\ exception = "none"
              /\ rendered[Len(rendered)] = "warning: No inspection data available yet."
              /\ \A e \in Sections : ~Shown(e)

\* C5 witness: the property query and another one failed, and the run stopped.
C5_Witness ==
    /\ pc = "stopped"
    /\ ~session.PROPERTY_RISK.ok
    /\ ~session.BANK_RISK_VIEW.ok
    /\ Len(rendered) = 4

\* C6: a run that ends in an error has rendered no section before it.
C6_AtomicFailure == pc = "exception" => \A e \in Sections : ~Shown(e)

\* C6, restricted to what the code does: a run that ends in an error was past the
\* loader and the property selection, and ended in one of the sections that read
\* a secondary table.
ErrorsOnlyInSecondaryReads ==
    pc = "exception" =>
        /\ Shown("selectbox: Property ID")
        /\ rendered[Len(rendered)] \in
              {"metric: Total Risk Score", "Plain-Language Inspection Summary",
               "Detected Defects", "Bank / Mortgage Risk Signal"}

\* C7: no step of any run writes the warehouse, and from the loader on the five
\* frames are what the loader returned: the heatmap's RISK_LEVEL column and the
\* trend's INSPECTION_DATE column are in the copies only.
C7_TablesReadOnly ==
    /\ [][session' = session]_vars
    /\ [](Loaded => /\ property_df = load_df("PROPERTY_RISK")
                    /\ room_df = load_df("ROOM_RISK")
                    /\ summary_df = load_df("PROPERTY_SUMMARY")
                    /\ image_df = load_df("ROOM_IMAGES")
                    /\ bank_df = load_df("BANK_RISK_VIEW"))
    /\ [](Shown("dataframe: heatmap_df") =>
             /\ "RISK_LEVEL" \in heatmap_df.columns
             /\ "RISK_LEVEL" \notin room_df.columns
             /\ "RISK_LEVEL" \notin room_view.columns)
    /\ [](Shown("line_chart: trend_df") =>
             /\ "INSPECTION_DATE" \in trend_df.columns
             /\ "INSPECTION_DATE" \notin property_df.columns)

\* C7 witness: a complete render, after control changes, with heatmap and trend.
C7_Witness ==
    /\ pc = "done"
    /\ widgets.high_risk /\ widgets.focus = 2
    /\ \E a \in issued : a.artifact.property_id # property_id
    /\ Len(heatmap_df.rows) > 0
    /\ Len(trend_df.rows) > 0

Inputs(a) ==
    <<a.property_id, a.risk_level, a.total_risk, a.rooms_inspected, a.confidence>>

\* C8: two reports generated from the same property id, risk level, total risk,
\* rooms_inspected and confidence have the same text and the same file name, which
\* is {property_id}_AI_Inspection_Report.txt, whatever happened in between.
C8_ReportIdempotent ==
    /\ \A a, b \in issued :
          Inputs(a.artifact) = Inputs(b.artifact) =>
              /\ a.artifact.text = b.artifact.text
              /\ a.artifact.file_name = b.artifact.file_name
    /\ \A a \in issued :
          a.artifact.file_name = <<a.artifact.property_id, "_AI_Inspection_Report.txt">>
    /\ Shown("download_button: report_text") =>
          \E a \in issued : /\ a.artifact.text = report_text
                            /\ a.artifact.file_name = file_name
                            /\ a.artifact.property_id = property_id

\* C8 witness: the report of a property was generated again, with the filter on,
\* and reports of both properties have been offered.
C8_Witness ==
    /\ pc = "guide"
    /\ only_high_risk
    /\ Len(room_view.rows) < rooms_inspected
    /\ \E a \in issued : a.again /\ a.artifact.text = report_text
    /\ Cardinality(issued) = 2

\* C9: the tier a room gets, in the panel and in the heatmap, is the tier the
\* Risk Severity Guide prints for its score.
C9_TierMatchesGuide ==
    /\ \A i \in DOMAIN explanations :
          TierLabel(explanations[i].severity) = GuideTier(explanations[i].score)
    /\ \A i \in DOMAIN heatmap_df.rows :
          heatmap_df.rows[i].RISK_LEVEL = GuideTier(heatmap_df.rows[i].ROOM_RISK_SCORE)

\* The rows of the loaded room table that belong to the selected property and
\* that the panel's classifier calls HIGH.
HighRooms ==
    SelectSeq(room_df.rows,
              LAMBDA r : r.PROPERTY_ID = property_id
                         /\ ExpectedPair(r.ROOM_RISK_SCORE)[1] = "HIGH")

\* C10: with "Highlight only high-risk rooms" checked, the rooms shown are the
\* rooms of the selected property that are classified HIGH; unchecked, all rooms
\* of the selected property.
C10_OnlyHighRiskShown ==
    Shown("dataframe: room_view") =>
        IF only_high_risk
        THEN /\ room_view.rows = HighRooms
             /\ Shown("expanders: explanations") =>
                   \A i \in DOMAIN explanations : explanations[i].severity = "HIGH"
        ELSE room_view.rows = SelectSeq(room_df.rows, LAMBDA r : r.PROPERTY_ID = property_id)

\* What the filter does: it keeps the rooms of the selected property whose score is
\* at least 60, the panel's MEDIUM and HIGH tiers.
FilterKeepsMediumAndHigh ==
    Shown("dataframe: room_view") /\ only_high_risk =>
        room_view.rows = SelectSeq(room_df.rows,
                                   LAMBDA r : r.PROPERTY_ID = property_id
                                              /\ r.ROOM_RISK_SCORE >= 60)

====
